---- MODULE Spec2Model ----
(***************************************************************************)
(* Model of the FHL Bible chatbot: the MCP client (src/src/mcp_client.py), *)
(* the tool-use loop of BibleChatbot.chat, the conversation logger and the *)
(* interactive session of main (src/src/chatbot.py).                       *)
(*                                                                         *)
(* The interactive session runs on one asyncio event loop, started by      *)
(* asyncio.run(main()).  The model call (Anthropic.messages.create), the   *)
(* prompt (input) and the log writes are synchronous: main's task gives up *)
(* the loop only at the awaits of connect() and at `await asyncio.gather`, *)
(* where the tasks of the batch run.  A SIGINT asks asyncio.run to cancel  *)
(* main's task; the cancellation is delivered where the task is, or next   *)
(* is, suspended.                                                           *)
(***************************************************************************)
EXTENDS Integers, Sequences, FiniteSets, TLC

\* ------------------------------------------------------------------ bounds
\* model calls per session (the code caps neither the chat() calls nor the
\* tool-use iterations of one chat())
MaxModelCalls == 3
\* calls forwarded to the server per session (the tool calls of chat() and the
\* direct calls of the client), and so the largest batch of one response
MaxToolCalls == 2
\* calls that raise while the session goes on (remote tool calls, model calls,
\* writes of a turn's log record) and interrupts whose cancellation is pending
MaxFaults == 1
\* largest max_history the constructor is given (0 = unbounded retention)
MaxHistoryArg == 3
\* connect() calls on one client
MaxConnects == 2
\* direct calls of one client that are awaiting the server's answer at a time
MaxInFlight == 1

\* ------------------------------------------------------------------ inputs
\* What the user types: the n-th chat() of a session is given the n-th message.
UserMessages == <<"q1", "q2", "q3", "q4", "q5">>
ToolNames == <<"get_bible_verse", "search_bible", "get_word_analysis", "get_commentary">>
ToolInputs == <<"John 3:16", "love", "agape", "Rom 8">>
ToolIds == <<"toolu_1", "toolu_2", "toolu_3", "toolu_4">>
RemoteErrors == {"timeout"}
ResourceUris == {"bible://versions"}
NotConnectedMsg == "Not connected. Use 'async with client.connect():'"

None == "None"

Min(a, b) == IF a < b THEN a ELSE b
Max(a, b) == IF a > b THEN a ELSE b
Last(s) == s[Len(s)]

\* ------------------------------------------------------- content blocks
\* A content block of a model response.  Only text blocks have a .text
\* attribute; only tool_use blocks have .id/.name/.input.
TextBlock(t) == [type |-> "text", text |-> t, id |-> "", name |-> "", input |-> ""]
ToolUseBlock(i) ==
    [type |-> "tool_use", text |-> "", id |-> ToolIds[i], name |-> ToolNames[i],
     input |-> ToolInputs[i]]

\* The tool-call requests of a response with n tool_use blocks.
ToolBatch(n) == [i \in 1..n |-> ToolUseBlock(i)]

\* The model responses the endpoint is driven with.  A response whose
\* stop_reason is "tool_use" carries at least one tool_use block; a response
\* cut off by max_tokens may carry a (truncated) tool_use block as well.
Responses ==
    {[stop_reason |-> "tool_use",
      content |-> (IF n = 1 THEN <<TextBlock("a")>> ELSE <<>>) \o ToolBatch(n)] :
        n \in 1..MaxToolCalls}
    \cup {[stop_reason |-> "end_turn", content |-> <<TextBlock("a"), TextBlock("b")>>]}
    \cup {[stop_reason |-> "max_tokens",
           content |-> <<TextBlock("b"), ToolUseBlock(1), TextBlock("a")>>]}

NoResponse == [stop_reason |-> None, content |-> <<>>]

\* ------------------------------------------------------------ transcript
\* The three shapes of message chat() appends to conversation_history.
UserTurn(msg) ==
    [role |-> "user", kind |-> "text", text |-> msg, blocks |-> <<>>, results |-> <<>>]
AssistantBlocksTurn(content) ==
    [role |-> "assistant", kind |-> "blocks", text |-> "", blocks |-> content,
     results |-> <<>>]
ToolResultsTurn_AssistantRole(rs) ==
    [role |-> "assistant", kind |-> "results", text |-> "", blocks |-> <<>>, results |-> rs]
ToolResultsTurn(rs) ==
    [role |-> "user", kind |-> "results", text |-> "", blocks |-> <<>>, results |-> rs]
AssistantTextTurn(t) ==
    [role |-> "assistant", kind |-> "text", text |-> t, blocks |-> <<>>, results |-> <<>>]

\* --------------------------------------------------------- pure functions
\* Python's s[start:] for a possibly negative start.
PySliceFrom(s, start) ==
    LET n == Len(s)
        lo == IF start < 0 THEN Max(n + start, 0) ELSE Min(start, n)
    IN  SubSeq(s, lo + 1, n)

\* BibleChatbot._prune_history, as a function of the transcript.
_prune_history_OffByOne(history, maxh) ==
    IF maxh > 0 /\ Len(history) > maxh THEN PySliceFrom(history, -maxh + 1) ELSE history

_prune_history_KeepsOldest(history, maxh) ==
    IF maxh > 0 /\ Len(history) > maxh THEN SubSeq(history, 1, maxh) ELSE history

_prune_history_KeepsOneMore(history, maxh) ==
    IF maxh > 0 /\ Len(history) > maxh THEN PySliceFrom(history, -(maxh + 1)) ELSE history

_prune_history_WholeUnits(history, maxh) ==
    IF maxh > 0 /\ Len(history) > maxh
    THEN LET kept == PySliceFrom(history, -maxh)
         IN  IF kept[1].kind = "results" THEN Tail(kept) ELSE kept
    ELSE history

_prune_history_NoZeroGuard(history, maxh) ==
    IF Len(history) > maxh
    THEN SubSeq(history, Len(history) - maxh + 1, Len(history))
    ELSE history

_prune_history(history, maxh) ==
    IF maxh > 0 /\ Len(history) > maxh THEN PySliceFrom(history, -maxh) ELSE history

\* tool_calls = [block for block in response.content if block.type == "tool_use"]
IsToolUse(b) == b.type = "tool_use"
ExtractToolCalls(content) == SelectSeq(content, IsToolUse)

\* final_text: the text of every block that has a .text attribute, in order.
RECURSIVE FinalText(_)
FinalText(content) ==
    IF content = <<>> THEN ""
    ELSE (IF Head(content).type = "text" THEN Head(content).text ELSE "")
         \o FinalText(Tail(content))

\* "\n".join(texts)
RECURSIVE JoinLines(_)
JoinLines(texts) ==
    IF texts = <<>> THEN ""
    ELSE IF Len(texts) = 1 THEN texts[1]
    ELSE texts[1] \o "\n" \o JoinLines(Tail(texts))

\* What the tool server answers: content items, of which only text items have
\* a .text attribute, or a raised error.
TextItem(t) == [type |-> "text", text |-> t]
ImageItem == [type |-> "image", text |-> ""]
RemoteOk(content) == [raised |-> FALSE, content |-> content, error |-> ""]
RemoteRaise(e) == [raised |-> TRUE, content |-> <<>>, error |-> e]
RemoteOutcomes(name, arguments) ==
    {RemoteOk(<<TextItem(name), ImageItem, TextItem(arguments)>>)}
    \cup {RemoteRaise(e) : e \in RemoteErrors}

\* FHLBibleClient.call_tool after the session check: the text of the result.
IsTextItem(c) == c.type = "text"
ResultText(content) ==
    IF content # <<>>
    THEN LET withText == SelectSeq(content, IsTextItem)
         IN  JoinLines([i \in 1..Len(withText) |-> withText[i].text])
    ELSE ""

\* FHLBibleClient.get_tools_for_claude
CatalogEntry(i) ==
    [name |-> ToolNames[i], description |-> ToolInputs[i], input_schema |-> "object"]
Catalogs == {[i \in 1..n |-> CatalogEntry(i)] : n \in 1..2}
\* The catalog of the FHL server the interactive session connects to.
FHLCatalog == [i \in 1..2 |-> CatalogEntry(i)]
get_tools_for_claude_SkipsLast(cached) ==
    [i \in 1..(Len(cached) - 1) |->
        [name |-> cached[i].name, description |-> cached[i].description,
         input_schema |-> cached[i].input_schema]]

get_tools_for_claude(cached) ==
    [i \in 1..Len(cached) |->
        [name |-> cached[i].name, description |-> cached[i].description,
         input_schema |-> cached[i].input_schema]]

\* execute_tool: the snapshot of the request, and the two result entries.
ToolCallInfo(tool_call) ==
    [name |-> tool_call.name, input |-> tool_call.input, id |-> tool_call.id]

ToolResultOk_IdFromName(tool_call, result) ==
    [type |-> "tool_result", tool_use_id |-> tool_call.name, content |-> result,
     is_error |-> FALSE]

ToolResultOk(tool_call, result) ==
    [type |-> "tool_result", tool_use_id |-> tool_call.id, content |-> result,
     is_error |-> FALSE]

ToolResultError_NotTagged(tool_call, e) ==
    [type |-> "tool_result", tool_use_id |-> tool_call.id, content |-> "Error: " \o e,
     is_error |-> FALSE]

ToolResultError(tool_call, e) ==
    [type |-> "tool_result", tool_use_id |-> tool_call.id, content |-> "Error: " \o e,
     is_error |-> TRUE]

ToolResultInfo(tool_call, isError, e) ==
    [tool_name |-> tool_call.name, tool_use_id |-> tool_call.id, is_error |-> isError,
     error |-> e]

\* A task of the gather that has not settled yet.
Pending == [type |-> "pending", tool_use_id |-> "", content |-> "", is_error |-> FALSE]

\* A dict, as the set of its (key, value) items, and dict.update.
DictUpdate(d, u) == {p \in d : \A q \in u : q[1] # p[1]} \cup u

\* The timing argument of log_message.  chat() passes the dict object
\* self.current_timing itself, main's handler passes nothing (None).
NoTiming == [passed |-> FALSE, items |-> {}]
TimingObject(d) == [passed |-> TRUE, items |-> d]

\* "timing": timing or {} -- a dict that is passed and not empty is stored as
\* the same object (shared with the caller), anything else as a new empty dict.
TimingField(timing) ==
    IF timing.passed /\ timing.items # {}
    THEN [shared |-> TRUE, own |-> {}]
    ELSE [shared |-> FALSE, own |-> {}]

\* ConversationLogger.log_message: the entry appended to self.conversations.
\* The lists passed as tool_calls and tool_results are stored as objects too;
\* chat() rebinds self.current_tool_calls and self.current_tool_results to new
\* lists before it appends to them, so a stored list never changes.
LogEntry(user_msg, assistant_response, calls, results, timing, error) ==
    [user_message |-> user_msg, assistant_response |-> assistant_response,
     tool_calls |-> calls, tool_results |-> results, timing |-> TimingField(timing),
     error |-> error]

\* ------------------------------------------------------------------ state
VARIABLES
    max_history,           \* BibleChatbot.max_history
    enable_logging,        \* BibleChatbot.logger is not None
    session,               \* FHLBibleClient.session: <<>> is None, <<n>> the n-th session
    open_sessions,         \* the ClientSession objects that are not torn down
    _tools,                \* FHLBibleClient._tools
    scope,                 \* scope[k]: where the k-th connect() call is (ScopePositions)
    connects,              \* connect() calls made
    last_op,               \* outcome of the last direct call on the client
    in_flight,             \* the calls suspended in an await of a session object
    conversation_history,  \* BibleChatbot.conversation_history
    current_tool_calls,    \* BibleChatbot.current_tool_calls
    current_tool_results,  \* BibleChatbot.current_tool_results
    current_timing,        \* BibleChatbot.current_timing
    conversations,         \* ConversationLogger.conversations
    now,                   \* time.time(): one tick per awaited model or tool call
    start_time,            \* chat(): start_time
    tool_start,            \* chat(): tool_start
    tool_time,             \* chat(): tool_time, when it is among the locals
    must_cancel,           \* a cancellation of main's task has been requested
    pc,                    \* position of chat(): "idle", "awaiting_model", "dispatching"
    user_message,          \* chat(): user_message
    tools,                 \* chat(): tools
    request,               \* the model call being made: messages and tools
    response,              \* chat(): response
    iteration,             \* chat(): iteration
    tool_calls,            \* chat(): tool_calls
    tool_results,          \* the gather: the result of each task, Pending until it settles
    result,                \* how the last chat() ended
    chats,                 \* chat() calls made
    model_calls,           \* model calls made in the session
    tool_calls_made,       \* calls forwarded to the server in the session
    faults                 \* calls that raised and interrupts taken in the session

clientVars == <<session, open_sessions, _tools, scope, connects, last_op, in_flight>>
configVars == <<max_history, enable_logging>>
logVars == <<current_tool_calls, current_tool_results, current_timing, conversations>>
clockVars == <<now, start_time, tool_start, tool_time>>
chatVars == <<conversation_history, pc, user_message, tools, request, response,
              iteration, tool_calls, tool_results, result, chats>>
countVars == <<model_calls, tool_calls_made, faults>>
taskVars == <<must_cancel>>
vars == <<configVars, clientVars, logVars, chatVars, clockVars, countVars, taskVars>>

NoRequest == [messages |-> <<>>, tools |-> <<>>]
NoOp == [op |-> None, raised |-> FALSE, text |-> "", catalog |-> <<>>]
OpReturned(op, text, catalog) ==
    [op |-> op, raised |-> FALSE, text |-> text, catalog |-> catalog]
OpRaised(op, e) == [op |-> op, raised |-> TRUE, text |-> e, catalog |-> <<>>]

\* BibleChatbot.__init__ and FHLBibleClient.__init__
Init ==
    /\ max_history \in 0..MaxHistoryArg
    /\ enable_logging \in BOOLEAN
    /\ session = <<>>
    /\ open_sessions = {}
    /\ _tools = <<>>
    /\ scope = <<>>
    /\ connects = 0
    /\ last_op = NoOp
    /\ in_flight = {}
    /\ conversation_history = <<>>
    /\ current_tool_calls = <<>>
    /\ current_tool_results = <<>>
    /\ current_timing = {}
    /\ conversations = <<>>
    /\ now = 0
    /\ start_time = 0
    /\ tool_start = 0
    /\ tool_time = 0
    /\ must_cancel = FALSE
    /\ pc = "idle"
    /\ user_message = ""
    /\ tools = <<>>
    /\ request = NoRequest
    /\ response = NoResponse
    /\ iteration = 0
    /\ tool_calls = <<>>
    /\ tool_results = <<>>
    /\ result = [kind |-> None, value |-> ""]
    /\ chats = 0
    /\ model_calls = 0
    /\ tool_calls_made = 0
    /\ faults = 0

\* --------------------------------------------------------------- the client
\* Where a connect() call is: suspended in one of its four awaits before the
\* yield (entering stdio_client, entering ClientSession, session.initialize(),
\* session.list_tools()), suspended at the yield with the caller in the body
\* of its `async with` ("active"), suspended in the exits of ClientSession and
\* stdio_client ("closing"), or over ("released").
ScopePositions ==
    {"stdio_client", "ClientSession", "initialize", "list_tools", "active", "closing",
     "released"}

\* The connect() calls whose scope is active.
ActiveScopes == {k \in 1..Len(scope) : scope[k] = "active"}

\* connect() with the interpreter looked up only after the session has been set
\* up.
connect_ChecksAfterHandshake(venv_exists) ==
    /\ pc = "idle"
    /\ connects' = connects + 1
    /\ IF venv_exists
       THEN /\ scope' = Append(scope, "stdio_client")
            /\ UNCHANGED <<session, open_sessions, _tools, last_op>>
       ELSE /\ scope' = Append(scope, "released")
            /\ session' = <<connects + 1>>
            /\ last_op' = OpRaised("connect", "FileNotFoundError")
            /\ UNCHANGED <<open_sessions, _tools>>
    /\ UNCHANGED in_flight
    /\ UNCHANGED <<configVars, logVars, chatVars, clockVars, countVars, taskVars>>

\* FHLBibleClient.connect is entered: _get_server_params raises when the
\* server's interpreter is missing, otherwise the call suspends entering
\* stdio_client.  Nothing in connect() looks at the client's state, so it can be
\* entered whatever the other connect() calls of the client are doing.
connect(venv_exists) ==
    /\ pc = "idle"
    /\ connects' = connects + 1
    /\ IF venv_exists
       THEN /\ scope' = Append(scope, "stdio_client")
            /\ UNCHANGED <<session, open_sessions, _tools, last_op>>
       ELSE /\ scope' = Append(scope, "released")
            /\ last_op' = OpRaised("connect", "FileNotFoundError")
            /\ UNCHANGED <<session, open_sessions, _tools>>
    /\ UNCHANGED in_flight
    /\ UNCHANGED <<configVars, logVars, chatVars, clockVars, countVars, taskVars>>

\* The await the k-th connect() call is suspended in returns or raises (a
\* cancellation delivered there raises too).  The session object exists once
\* ClientSession is entered; self.session is assigned after the handshake and
\* before the catalog fetch, self._tools after it; an exception tears the
\* session object down and leaves self.session and self._tools as they are.
\* An exception raised entering stdio_client ends the call; one raised later
\* goes through the exits of the context managers entered so far.
ConnectResumes(k, raised, catalog) ==
    /\ k \in 1..Len(scope)
    /\ scope[k] \in {"stdio_client", "ClientSession", "initialize", "list_tools"}
    /\ pc = "idle"
    /\ IF raised
       THEN /\ scope' = [scope EXCEPT ![k] = IF scope[k] = "stdio_client"
                                                 THEN "released" ELSE "closing"]
            /\ open_sessions' = open_sessions \ {k}
            /\ last_op' = OpRaised("connect", scope[k])
            /\ UNCHANGED <<session, _tools>>
       ELSE CASE scope[k] = "stdio_client" ->
                   /\ scope' = [scope EXCEPT ![k] = "ClientSession"]
                   /\ UNCHANGED <<session, open_sessions, _tools, last_op>>
              [] scope[k] = "ClientSession" ->
                   /\ scope' = [scope EXCEPT ![k] = "initialize"]
                   /\ open_sessions' = open_sessions \cup {k}
                   /\ UNCHANGED <<session, _tools, last_op>>
              [] scope[k] = "initialize" ->
                   /\ scope' = [scope EXCEPT ![k] = "list_tools"]
                   /\ session' = <<k>>
                   /\ UNCHANGED <<open_sessions, _tools, last_op>>
              [] scope[k] = "list_tools" ->
                   /\ scope' = [scope EXCEPT ![k] = "active"]
                   /\ _tools' = catalog
                   /\ last_op' = OpReturned("connect", "", catalog)
                   /\ UNCHANGED <<session, open_sessions>>
    /\ UNCHANGED <<connects, in_flight>>
    /\ UNCHANGED <<configVars, logVars, chatVars, clockVars, countVars, taskVars>>

\* The k-th scope is left by an exception thrown into the generator at the
\* yield: its session object is torn down, the line after the yield does not
\* run, and the call suspends in the exits of ClientSession and stdio_client.
BodyRaises(k) ==
    /\ session' = session
    /\ open_sessions' = open_sessions \ {k}
    /\ scope' = [scope EXCEPT ![k] = "closing"]

\* The k-th scope is left normally: the generator resumes after the yield and
\* sets self.session to None, whichever session it refers to, before it
\* suspends in the exits of ClientSession and stdio_client.
BodyReturns(k) ==
    /\ session' = <<>>
    /\ open_sessions' = open_sessions \ {k}
    /\ scope' = [scope EXCEPT ![k] = "closing"]

\* The exits of ClientSession and stdio_client the k-th connect() call is
\* suspended in are over, normally or by an exception (a cancellation delivered
\* there included): the call is over.
ScopeCloses(k) ==
    /\ k \in 1..Len(scope)
    /\ scope[k] = "closing"
    /\ scope' = [scope EXCEPT ![k] = "released"]
    /\ UNCHANGED <<session, open_sessions, _tools, connects, last_op, in_flight>>
    /\ UNCHANGED <<configVars, logVars, chatVars, clockVars, countVars, taskVars>>

\* A call suspended in `await self.session.<op>(...)`: the session object
\* self.session referred to when the call was made, the tool_use id of the
\* request when chat() made the call ("" for a direct call), and the arguments.
InFlight(op, sess, id, name, arguments) ==
    [op |-> op, session |-> sess, id |-> id, name |-> name, arguments |-> arguments]

\* The calls of the batch chat() is waiting for that have not begun.
Unstarted ==
    IF pc = "dispatching" THEN Len(tool_calls) - Len(current_tool_calls) ELSE 0

\* call_tool, list_resources and read_resource up to their await: the check of
\* self.session raises when it is None, otherwise the call is forwarded to the
\* session object self.session refers to and the method suspends.  The caller
\* is any task of the event loop, which runs its tasks whenever chat() is not
\* in messages.create (a synchronous call): between two chat() calls and
\* while chat() waits for its batch.
SessionCallBegins(op, notConnected, name, arguments) ==
    IF session = <<>>
    THEN /\ last_op' = OpRaised(op, notConnected)
         /\ UNCHANGED <<in_flight, tool_calls_made>>
    ELSE /\ Cardinality({c \in in_flight : c.id = ""}) < MaxInFlight
         /\ tool_calls_made + Unstarted < MaxToolCalls
         /\ tool_calls_made' = tool_calls_made + 1
         /\ in_flight' = in_flight \cup {InFlight(op, session[1], "", name, arguments)}
         /\ UNCHANGED last_op

\* The await of a call forwarded to the session object sess is over: the call
\* raises when the session object has been torn down or the server's answer is
\* an error; `returned` is what the method returns otherwise.  self.session is
\* not read again.
SessionCall(op, sess, outcome, returned) ==
    IF sess \notin open_sessions
    THEN OpRaised(op, "ClosedResourceError")
    ELSE IF outcome.raised
    THEN OpRaised(op, outcome.error)
    ELSE returned

\* connect() as the client's own main() and other callers use it: by any task
\* of the event loop, also while another connect() of the client is under way
\* or its scope active.
ClientConnect(venv_exists) ==
    /\ connects < MaxConnects
    /\ connect(venv_exists)

\* The body of a caller's `async with client.connect()` ends, by falling off
\* its end or by an exception.
ClientScopeExit(k, raised) ==
    /\ k \in ActiveScopes
    /\ pc = "idle"
    /\ IF raised THEN BodyRaises(k) ELSE BodyReturns(k)
    /\ UNCHANGED <<_tools, connects, last_op, in_flight>>
    /\ UNCHANGED <<configVars, logVars, chatVars, clockVars, countVars, taskVars>>

\* FHLBibleClient.call_tool called directly on the client, up to its await.
ClientCallTool(name, arguments) ==
    /\ pc # "awaiting_model"
    /\ SessionCallBegins("call_tool", NotConnectedMsg, name, arguments)
    /\ UNCHANGED <<session, open_sessions, _tools, scope, connects>>
    /\ UNCHANGED <<model_calls, faults>>
    /\ UNCHANGED <<configVars, logVars, chatVars, clockVars, taskVars>>

\* The server answers a direct call_tool: the texts of the result are joined.
\* The caller is resumed by the event loop, which does not run while chat() is
\* in messages.create, a synchronous call.
ClientCallToolReturns(c, outcome) ==
    /\ c \in in_flight
    /\ pc # "awaiting_model"
    /\ c.op = "call_tool" /\ c.id = ""
    /\ last_op' = SessionCall("call_tool", c.session, outcome,
                              OpReturned("call_tool", ResultText(outcome.content), <<>>))
    /\ in_flight' = in_flight \ {c}
    /\ UNCHANGED <<session, open_sessions, _tools, scope, connects>>
    /\ UNCHANGED <<configVars, logVars, chatVars, clockVars, countVars, taskVars>>

\* FHLBibleClient.list_resources, up to its await.
ClientListResources ==
    /\ pc # "awaiting_model"
    /\ SessionCallBegins("list_resources", "Not connected", "", "")
    /\ UNCHANGED <<session, open_sessions, _tools, scope, connects>>
    /\ UNCHANGED <<model_calls, faults>>
    /\ UNCHANGED <<configVars, logVars, chatVars, clockVars, taskVars>>

\* The server answers list_resources.
ClientListResourcesReturns(c, outcome) ==
    /\ c \in in_flight
    /\ pc # "awaiting_model"
    /\ c.op = "list_resources"
    /\ last_op' = SessionCall("list_resources", c.session, outcome,
                              OpReturned("list_resources", "", outcome.content))
    /\ in_flight' = in_flight \ {c}
    /\ UNCHANGED <<session, open_sessions, _tools, scope, connects>>
    /\ UNCHANGED <<configVars, logVars, chatVars, clockVars, countVars, taskVars>>

\* FHLBibleClient.read_resource, up to its await.
ClientReadResource(uri) ==
    /\ pc # "awaiting_model"
    /\ SessionCallBegins("read_resource", "Not connected", uri, "")
    /\ UNCHANGED <<session, open_sessions, _tools, scope, connects>>
    /\ UNCHANGED <<model_calls, faults>>
    /\ UNCHANGED <<configVars, logVars, chatVars, clockVars, taskVars>>

\* The server answers read_resource: the texts of the contents are joined.
ClientReadResourceReturns(c, outcome) ==
    /\ c \in in_flight
    /\ pc # "awaiting_model"
    /\ c.op = "read_resource"
    /\ last_op' = SessionCall("read_resource", c.session, outcome,
                              OpReturned("read_resource", ResultText(outcome.content), <<>>))
    /\ in_flight' = in_flight \ {c}
    /\ UNCHANGED <<session, open_sessions, _tools, scope, connects>>
    /\ UNCHANGED <<configVars, logVars, chatVars, clockVars, countVars, taskVars>>

\* FHLBibleClient.tools / get_tools_for_claude called directly on the client.
ClientGetTools ==
    /\ pc # "awaiting_model"
    /\ last_op' = OpReturned("get_tools_for_claude", "", get_tools_for_claude(_tools))
    /\ UNCHANGED <<session, open_sessions, _tools, scope, connects, in_flight>>
    /\ UNCHANGED <<configVars, logVars, chatVars, clockVars, countVars, taskVars>>

\* ------------------------------------------------- the interactive session
\* main: `async with chatbot.mcp_client.connect()`, entered once.
MainConnect(venv_exists) ==
    /\ connects = 0
    /\ connect(venv_exists)

\* main is suspended in an await of its connect() call, which returns or
\* raises; a cancellation of main's task that is pending is delivered there.
MainConnectResumes(raised) ==
    /\ must_cancel => raised
    /\ \E k \in 1..Len(scope) : ConnectResumes(k, raised, FHLCatalog)

\* main() runs from asyncio.run(main()) until its connect() call is over.
MainRuns == \A k \in 1..Len(scope) : scope[k] # "released"

\* ------------------------------------------------------------------ chat()
\* Whether a write of the log files can fail is the file system's choice.
WriteOutcomes == IF enable_logging THEN BOOLEAN ELSE {TRUE}

\* chat() up to the initial model call: append the user message, prune, read
\* the catalog, and call the model with the transcript.
ChatStart(msg) ==
    /\ ActiveScopes # {}
    /\ pc = "idle"
    /\ model_calls < MaxModelCalls
    /\ model_calls' = model_calls + 1
    /\ UNCHANGED <<tool_calls_made, faults>>
    /\ chats' = chats + 1
    /\ user_message' = msg
    /\ conversation_history' =
            _prune_history(Append(conversation_history, UserTurn(msg)), max_history)
    /\ tools' = get_tools_for_claude(_tools)
    /\ request' = [messages |-> conversation_history', tools |-> tools']
    /\ response' = NoResponse
    /\ iteration' = 0
    /\ tool_calls' = <<>>
    /\ tool_results' = <<>>
    /\ result' = [kind |-> "running", value |-> ""]
    /\ pc' = "awaiting_model"
    /\ start_time' = now
    /\ UNCHANGED <<now, tool_start, tool_time>>
    /\ UNCHANGED <<configVars, clientVars, logVars, taskVars>>

\* chat() is left: its locals are gone.
ChatLocalsDie ==
    /\ start_time' = 0
    /\ tool_start' = 0
    /\ tool_time' = 0
    /\ tools' = <<>>
    /\ request' = NoRequest
    /\ iteration' = 0
    /\ tool_calls' = <<>>
    /\ tool_results' = <<>>

\* main's `except Exception` around chat(): the error is logged when logging is
\* enabled; a failure of that write leaves the connect() scope by exception.
ChatRaisesToMain(convs, e, handlerWrites) ==
    /\ faults < MaxFaults
    /\ faults' = faults + 1
    /\ UNCHANGED <<model_calls, tool_calls_made>>
    /\ result' = [kind |-> "raised", value |-> e]
    /\ pc' = "idle"
    /\ conversations' =
            IF enable_logging
            THEN Append(convs, LogEntry(user_message, "", <<>>, <<>>, NoTiming, e))
            ELSE convs
    /\ IF enable_logging /\ ~handlerWrites
       THEN \E k \in ActiveScopes : BodyRaises(k)
       ELSE UNCHANGED <<session, open_sessions, scope>>
    /\ UNCHANGED <<_tools, connects, last_op, in_flight>>
    /\ UNCHANGED taskVars
    /\ ChatLocalsDie

\* The model call raises: chat() has no handler, the exception reaches main.
ModelRaises_RollsBack(e, handlerWrites) ==
    /\ pc = "awaiting_model"
    /\ conversation_history' = SubSeq(conversation_history, 1, Len(conversation_history) - 1)
    /\ ChatRaisesToMain(conversations, e, handlerWrites)
    /\ now' = now + 1
    /\ UNCHANGED <<configVars, current_tool_calls, current_tool_results, current_timing>>
    /\ UNCHANGED <<user_message, response, chats>>

ModelRaises(e, handlerWrites) ==
    /\ pc = "awaiting_model"
    /\ ChatRaisesToMain(conversations, e, handlerWrites)
    /\ now' = now + 1
    /\ UNCHANGED <<configVars, current_tool_calls, current_tool_results, current_timing>>
    /\ UNCHANGED <<conversation_history, user_message, response, chats>>

\* The loop condition of chat().
WantsTools_Capped(r) == r.stop_reason = "tool_use" /\ iteration < 1

WantsTools_ByContent(r) == \E i \in 1..Len(r.content) : r.content[i].type = "tool_use"

WantsTools(r) == r.stop_reason = "tool_use"

\* The model answers with stop_reason "tool_use": the assistant turn is
\* appended, the lists of the turn's calls and results are rebound to new empty
\* lists, and chat() suspends in `await asyncio.gather(...)`, which has made a
\* task of each requested call.  No task has run yet.
ModelRequestsTools(r) ==
    /\ pc = "awaiting_model"
    /\ WantsTools(r)
    /\ model_calls < MaxModelCalls
    /\ tool_calls_made + Len(ExtractToolCalls(r.content)) <= MaxToolCalls
    /\ UNCHANGED <<model_calls, tool_calls_made, faults>>
    /\ response' = r
    /\ iteration' = iteration + 1
    /\ tool_calls' = ExtractToolCalls(r.content)
    /\ conversation_history' = Append(conversation_history, AssistantBlocksTurn(r.content))
    /\ current_tool_calls' = <<>>
    /\ current_tool_results' = <<>>
    /\ tool_results' = [i \in 1..Len(tool_calls') |-> Pending]
    /\ pc' = "dispatching"
    /\ now' = now + 1
    /\ tool_start' = now'
    /\ UNCHANGED <<start_time, tool_time>>
    /\ UNCHANGED <<configVars, clientVars, current_timing, conversations, taskVars>>
    /\ UNCHANGED <<user_message, tools, request, result, chats>>

\* The task of the i-th call runs for the first time: execute_tool records the
\* request and suspends in its remote call.  The event loop runs the tasks in
\* the order the gather made them, so the requests are recorded in request
\* order.  call_tool raises without suspending when self.session is None, and
\* the task then settles in the same step; otherwise the call is forwarded to
\* the session object self.session refers to.  A task that is cancelled before
\* it has run never runs.
execute_tool(i) ==
    /\ pc = "dispatching"
    /\ ~must_cancel
    /\ i = Len(current_tool_calls) + 1
    /\ i <= Len(tool_calls)
    /\ tool_calls_made' = tool_calls_made + 1
    /\ UNCHANGED <<model_calls, faults>>
    /\ current_tool_calls' = Append(current_tool_calls, ToolCallInfo(tool_calls[i]))
    /\ IF session = <<>>
       THEN /\ tool_results' =
                  [tool_results EXCEPT ![i] = ToolResultError(tool_calls[i], NotConnectedMsg)]
            /\ current_tool_results' =
                  Append(current_tool_results,
                         ToolResultInfo(tool_calls[i], TRUE, NotConnectedMsg))
            /\ UNCHANGED in_flight
       ELSE /\ in_flight' =
                  in_flight \cup {InFlight("call_tool", session[1], tool_calls[i].id,
                                           tool_calls[i].name, tool_calls[i].input)}
            /\ UNCHANGED <<tool_results, current_tool_results>>
    /\ UNCHANGED <<session, open_sessions, _tools, scope, connects, last_op>>
    /\ UNCHANGED <<configVars, current_timing, conversations, clockVars, taskVars>>
    /\ UNCHANGED <<conversation_history, pc, user_message, tools, request, response,
                   iteration, tool_calls, result, chats>>

\* One task of the gather settles: its remote call returns or raises and
\* execute_tool returns its entry.  The first steps of all the tasks of a batch
\* are queued on the event loop before any remote call can complete.
ToolSettles(i, outcome) ==
    /\ pc = "dispatching"
    /\ ~must_cancel
    /\ Len(current_tool_calls) = Len(tool_calls)
    /\ i \in 1..Len(tool_calls)
    /\ tool_results[i] = Pending
    /\ outcome.raised => faults < MaxFaults
    /\ faults' = IF outcome.raised THEN faults + 1 ELSE faults
    /\ UNCHANGED <<model_calls, tool_calls_made>>
    /\ \E c \in in_flight : c.id = tool_calls[i].id
    /\ LET tc == tool_calls[i]
           c == CHOOSE x \in in_flight : x.id = tc.id
           op == SessionCall("call_tool", c.session, outcome,
                             OpReturned("call_tool", ResultText(outcome.content), <<>>))
       IN  /\ in_flight' = in_flight \ {c}
           /\ tool_results' =
                 [tool_results EXCEPT ![i] =
                    IF op.raised THEN ToolResultError(tc, op.text)
                    ELSE ToolResultOk(tc, op.text)]
           /\ current_tool_results' =
                 Append(current_tool_results,
                        ToolResultInfo(tc, op.raised, IF op.raised THEN op.text ELSE ""))
    /\ now' = now + 1
    /\ UNCHANGED <<start_time, tool_start, tool_time>>
    /\ UNCHANGED <<session, open_sessions, _tools, scope, connects, last_op>>
    /\ UNCHANGED <<configVars, current_tool_calls, current_timing, conversations, taskVars>>
    /\ UNCHANGED <<conversation_history, pc, user_message, tools, request, response,
                   iteration, tool_calls, result, chats>>

\* asyncio.gather returns once every task has settled.
GatherDone_FirstCompleted(results) ==
    results = <<>> \/ \E i \in 1..Len(results) : results[i] # Pending

GatherDone(results) == \A i \in 1..Len(results) : results[i] # Pending

\* The batch turn built from the entries in the order the calls completed.
GatherReturns_CompletionOrder ==
    /\ pc = "dispatching"
    /\ GatherDone(tool_results)
    /\ ~must_cancel \/ tool_calls = <<>>
    /\ LET entryOf(k) ==
               tool_results[CHOOSE i \in 1..Len(tool_results) :
                               tool_results[i].tool_use_id =
                                  current_tool_results[k].tool_use_id]
       IN  conversation_history' =
              Append(conversation_history,
                     ToolResultsTurn([k \in 1..Len(current_tool_results) |-> entryOf(k)]))
    /\ request' = [messages |-> conversation_history', tools |-> tools]
    /\ model_calls' = model_calls + 1
    /\ UNCHANGED <<tool_calls_made, faults>>
    /\ pc' = "awaiting_model"
    /\ tool_time' = now - tool_start
    /\ UNCHANGED <<now, start_time, tool_start>>
    /\ UNCHANGED <<configVars, clientVars, logVars, taskVars>>
    /\ UNCHANGED <<user_message, tools, response, iteration, tool_calls, tool_results,
                   result, chats>>

\* The gather returns the entries in request order; the batch turn is appended
\* and the model is called again with the transcript.  chat() is resumed with
\* the entries unless its task has been cancelled; awaiting the gather of an
\* empty batch does not suspend, and a cancellation is not delivered there.
GatherReturns ==
    /\ pc = "dispatching"
    /\ GatherDone(tool_results)
    /\ ~must_cancel \/ tool_calls = <<>>
    /\ conversation_history' = Append(conversation_history, ToolResultsTurn(tool_results))
    /\ request' = [messages |-> conversation_history', tools |-> tools]
    /\ model_calls' = model_calls + 1
    /\ UNCHANGED <<tool_calls_made, faults>>
    /\ pc' = "awaiting_model"
    /\ tool_time' = now - tool_start
    /\ UNCHANGED <<now, start_time, tool_start>>
    /\ UNCHANGED <<configVars, clientVars, logVars, taskVars>>
    /\ UNCHANGED <<user_message, tools, response, iteration, tool_calls, tool_results,
                   result, chats>>

\* The cancellation of main's task is delivered at `await asyncio.gather`: the
\* gather cancels the tasks that have not settled, none of which records a
\* result (execute_tool handles Exception, which CancelledError is not), and
\* CancelledError is raised in chat().  Neither chat() nor main handles it: no
\* record is logged and the connect() scope is left by the exception.
GatherCancelled ==
    /\ pc = "dispatching"
    /\ must_cancel
    /\ tool_calls # <<>>
    /\ result' = [kind |-> "raised", value |-> "CancelledError"]
    /\ pc' = "idle"
    /\ \E k \in ActiveScopes : BodyRaises(k)
    /\ in_flight' = {c \in in_flight : c.id = ""}
    /\ ChatLocalsDie
    /\ UNCHANGED <<_tools, connects, last_op, now>>
    /\ UNCHANGED <<configVars, logVars, countVars, taskVars>>
    /\ UNCHANGED <<conversation_history, user_message, response, chats>>

\* The model answers with any other stop_reason: the final text is appended,
\* the turn is logged and chat() returns.  A failed write of the log raises
\* out of chat() after the entry and the final turn have been appended.
ModelFinishes(r, chatWrites, handlerWrites) ==
    /\ pc = "awaiting_model"
    /\ ~WantsTools(r)
    /\ response' = r
    /\ now' = now + 1
    /\ current_timing' =
            DictUpdate(current_timing,
                       {<<"tools_loading", 0>>,
                        <<"initial_api_call", 1>>,
                        <<"tool_execution", IF iteration > 0 THEN tool_time ELSE 0>>,
                        <<"total", now' - start_time>>})
    /\ LET final_text == FinalText(r.content)
           logged == IF enable_logging
                     THEN Append(conversations,
                                 LogEntry(user_message, final_text, current_tool_calls,
                                          current_tool_results,
                                          TimingObject(current_timing'), None))
                     ELSE conversations
       IN  /\ conversation_history' = Append(conversation_history, AssistantTextTurn(final_text))
           /\ IF chatWrites
              THEN /\ result' = [kind |-> "returned", value |-> final_text]
                   /\ pc' = "idle"
                   /\ conversations' = logged
                   /\ ChatLocalsDie
                   /\ UNCHANGED <<clientVars, countVars, taskVars>>
              ELSE ChatRaisesToMain(logged, "log write failed", handlerWrites)
    /\ UNCHANGED <<configVars, current_tool_calls, current_tool_results>>
    /\ UNCHANGED <<user_message, chats>>

\* BibleChatbot.clear_history: conversation_history is rebound to a new empty
\* list.  Nothing in it looks at what chat() is doing; a task of the event
\* loop can call it whenever chat() is not in messages.create.
clear_history ==
    /\ pc # "awaiting_model"
    /\ conversation_history' = <<>>
    /\ UNCHANGED <<configVars, clientVars, logVars, clockVars, countVars, taskVars>>
    /\ UNCHANGED <<pc, user_message, tools, request, response, iteration, tool_calls,
                   tool_results, result, chats>>

\* The "clear" command with a clear_history that keeps the last turn.
ClearHistory_KeepsLastTurn ==
    /\ ActiveScopes # {}
    /\ pc = "idle"
    /\ conversation_history' =
          IF conversation_history = <<>> THEN <<>> ELSE <<Last(conversation_history)>>
    /\ UNCHANGED <<configVars, clientVars, logVars, clockVars, countVars, taskVars>>
    /\ UNCHANGED <<pc, user_message, tools, request, response, iteration, tool_calls,
                   tool_results, result, chats>>

\* main's "clear" command, read between two chat() calls.
ClearHistory ==
    /\ ActiveScopes # {}
    /\ pc = "idle"
    /\ clear_history

\* "quit" or end of input: the body of the scope ends with log_summary, whose
\* write can fail.
Quit(summaryWrites) ==
    /\ ActiveScopes # {}
    /\ pc = "idle"
    /\ \E k \in ActiveScopes : IF summaryWrites THEN BodyReturns(k) ELSE BodyRaises(k)
    /\ UNCHANGED <<model_calls, tool_calls_made, faults>>
    /\ UNCHANGED <<_tools, connects, last_op, in_flight>>
    /\ UNCHANGED <<configVars, logVars, chatVars, clockVars, taskVars>>

\* A SIGINT that asyncio.run's handler takes, which it does for as long as
\* main() runs: it asks for main's task to be cancelled and raises nothing
\* where the task is running (input() and messages.create go on).  The
\* cancellation is delivered at the next point where the task is suspended: an
\* await of connect(), the gather, or the exits of the connect() scope.
Sigint ==
    /\ MainRuns
    /\ ~must_cancel
    /\ must_cancel' = TRUE
    /\ faults < MaxFaults
    /\ faults' = faults + 1
    /\ UNCHANGED <<model_calls, tool_calls_made>>
    /\ UNCHANGED <<configVars, clientVars, logVars, chatVars, clockVars>>

\* KeyboardInterrupt is raised where main's task is running, in input() or in
\* messages.create (a SIGINT with no asyncio handler installed, or the one
\* after asyncio.run's handler has asked for the cancellation).  main handles
\* only EOFError and Exception: nothing is logged and the body raises.
Interrupted ==
    /\ ActiveScopes # {}
    /\ pc \in {"idle", "awaiting_model"}
    /\ \E k \in ActiveScopes : BodyRaises(k)
    /\ IF pc = "awaiting_model"
       THEN /\ result' = [kind |-> "raised", value |-> "KeyboardInterrupt"]
            /\ pc' = "idle"
            /\ ChatLocalsDie
            /\ UNCHANGED <<conversation_history, user_message, response, chats, now>>
       ELSE UNCHANGED <<chatVars, clockVars>>
    /\ UNCHANGED <<_tools, connects, last_op, in_flight>>
    /\ UNCHANGED <<configVars, logVars, countVars, taskVars>>

\* The interactive session of chatbot.py's main.
Next ==
    \/ \E v \in BOOLEAN : MainConnect(v)
    \/ \E raised \in BOOLEAN : MainConnectResumes(raised)
    \/ \E k \in 1..Len(scope) : ScopeCloses(k)
    \/ \E m \in {UserMessages[chats + 1]} : ChatStart(m)
    \/ \E e \in {"api_error"}, w \in WriteOutcomes : ModelRaises(e, w)
    \/ \E r \in Responses : ModelRequestsTools(r)
    \/ \E i \in 1..Len(tool_calls) : execute_tool(i)
    \/ \E i \in 1..Len(tool_calls) :
          \E o \in RemoteOutcomes(tool_calls[i].name, tool_calls[i].input) : ToolSettles(i, o)
    \/ GatherReturns
    \/ GatherCancelled
    \/ \E r \in Responses, w1 \in WriteOutcomes, w2 \in WriteOutcomes : ModelFinishes(r, w1, w2)
    \/ ClearHistory
    \/ \E w \in WriteOutcomes : Quit(w)
    \/ Sigint
    \/ Interrupted

Spec == Init /\ [][Next]_vars

\* The interactive session for as long as the user neither ends nor interrupts
\* it, when every model call and every tool call settles: an awaited
\* messages.create returns or raises, the event loop runs every task it has
\* queued, every awaited call_tool returns or raises, and the gather resumes
\* chat() once all have.
ModelAnswers ==
    \/ \E e \in {"api_error"}, w \in WriteOutcomes : ModelRaises(e, w)
    \/ \E r \in Responses : ModelRequestsTools(r)
    \/ \E r \in Responses, w1 \in WriteOutcomes, w2 \in WriteOutcomes : ModelFinishes(r, w1, w2)

ToolsStart == \E i \in 1..Len(tool_calls) : execute_tool(i)

ToolsSettle ==
    \E i \in 1..Len(tool_calls) :
       \E o \in RemoteOutcomes(tool_calls[i].name, tool_calls[i].input) : ToolSettles(i, o)

LiveNext ==
    \/ \E v \in BOOLEAN : MainConnect(v)
    \/ \E raised \in BOOLEAN : MainConnectResumes(raised)
    \/ \E k \in 1..Len(scope) : ScopeCloses(k)
    \/ \E m \in {UserMessages[chats + 1]} : ChatStart(m)
    \/ ModelAnswers
    \/ ToolsStart
    \/ ToolsSettle
    \/ GatherReturns
    \/ ClearHistory

LiveSpec ==
    /\ Init /\ [][LiveNext]_vars
    /\ WF_vars(ModelAnswers) /\ WF_vars(ToolsStart) /\ WF_vars(ToolsSettle)
    /\ WF_vars(GatherReturns)

\* Direct use of the client, as in mcp_client.py's main, by the tasks of one
\* event loop.
ClientNext ==
    \/ \E v \in BOOLEAN : ClientConnect(v)
    \/ \E k \in 1..Len(scope), raised \in BOOLEAN, c \in Catalogs :
          ConnectResumes(k, raised, c)
    \/ \E k \in 1..Len(scope), raised \in BOOLEAN : ClientScopeExit(k, raised)
    \/ \E k \in 1..Len(scope) : ScopeCloses(k)
    \/ \E i \in 1..2 : ClientCallTool(ToolNames[i], ToolInputs[i])
    \/ \E c \in in_flight :
          \E o \in RemoteOutcomes(c.name, c.arguments) \cup {RemoteOk(<<>>)} :
             ClientCallToolReturns(c, o)
    \/ ClientListResources
    \/ \E c \in in_flight, o \in {RemoteOk(<<>>), RemoteRaise("timeout")} :
          ClientListResourcesReturns(c, o)
    \/ \E uri \in ResourceUris : ClientReadResource(uri)
    \/ \E c \in in_flight, o \in {RemoteOk(<<TextItem("res")>>), RemoteRaise("timeout")} :
          ClientReadResourceReturns(c, o)
    \/ ClientGetTools

ClientSpec == Init /\ [][ClientNext]_vars

\* One connection of a chatbot, for as long as it is up: one task calls chat()
\* and awaits each call before the next, and other tasks of the event loop
\* call clear_history and the client's methods whenever the loop runs them,
\* between the turns and while chat() waits for a batch; the server announces
\* either catalog.  The chatbot is one that keeps no log and prunes nothing:
\* neither the logger nor _prune_history reads or writes the client.
ConnectionInit == Init /\ max_history = 0 /\ ~enable_logging

ConnectionNext ==
    \/ \E v \in BOOLEAN : MainConnect(v)
    \/ \E k \in 1..Len(scope), raised \in BOOLEAN, c \in Catalogs :
          ConnectResumes(k, raised, c)
    \/ \E k \in 1..Len(scope) : ScopeCloses(k)
    \/ \E m \in {UserMessages[chats + 1]} : ChatStart(m)
    \/ ModelAnswers
    \/ ToolsStart
    \/ ToolsSettle
    \/ GatherReturns
    \/ clear_history
    \/ \E i \in 1..2 : ClientCallTool(ToolNames[i], ToolInputs[i])
    \/ \E c \in in_flight :
          \E o \in RemoteOutcomes(c.name, c.arguments) \cup {RemoteOk(<<>>)} :
             ClientCallToolReturns(c, o)
    \/ ClientListResources
    \/ \E c \in in_flight, o \in {RemoteOk(<<>>), RemoteRaise("timeout")} :
          ClientListResourcesReturns(c, o)
    \/ \E uri \in ResourceUris : ClientReadResource(uri)
    \/ \E c \in in_flight, o \in {RemoteOk(<<TextItem("res")>>), RemoteRaise("timeout")} :
          ClientReadResourceReturns(c, o)
    \/ ClientGetTools

ConnectionSpec == ConnectionInit /\ [][ConnectionNext]_vars

\* ================================================================= claims
HasToolUse(content) == \E i \in 1..Len(content) : content[i].type = "tool_use"

\* What the entry of a request holds when the call ended with outcome o.
EntryContent(o) == IF o.raised THEN "Error: " \o o.error ELSE ResultText(o.content)

\* The model call being made is the one issued after a tool batch.
CallAfterBatch == pc = "awaiting_model" /\ iteration > 0

\* The requests of the assistant turn before the last turn of a transcript.
RequestsBeforeLast(h) == ExtractToolCalls(h[Len(h) - 1].blocks)

\* C1: whatever the order in which the N calls of a batch complete, the batch
\* turn appended to conversation_history holds exactly N entries, one per
\* request, each with the tool_use_id of the request it was executed for.
C1_BatchOnePerRequest ==
    CallAfterBatch =>
        LET h == conversation_history
            batch == Last(h).results
            reqs == RequestsBeforeLast(h)
        IN  /\ Len(h) >= 2
            /\ Last(h).role = "user" /\ Last(h).kind = "results"
            /\ h[Len(h) - 1].kind = "blocks"
            /\ reqs = tool_calls
            /\ Len(batch) = Len(reqs)
            /\ \A j \in 1..Len(reqs) :
                  Cardinality({k \in 1..Len(batch) : batch[k].tool_use_id = reqs[j].id}) = 1
            /\ \A k \in 1..Len(batch) :
                  \E j \in 1..Len(reqs) :
                     /\ batch[k].tool_use_id = reqs[j].id
                     /\ batch[k].content \in
                           {EntryContent(o) : o \in RemoteOutcomes(reqs[j].name, reqs[j].input)}

\* C1 witness: a batch of two whose second call completed first.
C1_Witness_ReverseCompletion ==
    /\ CallAfterBatch
    /\ Len(tool_calls) = 2
    /\ Len(current_tool_results) = 2
    /\ current_tool_results[1].tool_use_id = tool_calls[2].id
    /\ ~Last(conversation_history).results[1].is_error
    /\ ~Last(conversation_history).results[2].is_error

\* A task settling with outcome o writes only its own entry, tagged by whether
\* the remote call raised, and chat() stays in the batch.
C2_SettleStep ==
    \A i \in 1..Len(tool_calls) :
       \A o \in RemoteOutcomes(tool_calls[i].name, tool_calls[i].input) :
          ToolSettles(i, o) =>
             /\ tool_results'[i].is_error = o.raised
             /\ tool_results'[i].content = EntryContent(o)
             /\ tool_results'[i].tool_use_id = tool_calls[i].id
             /\ \A j \in 1..Len(tool_calls) : j # i => tool_results'[j] = tool_results[j]
             /\ pc' = "dispatching"
             /\ result' = [kind |-> "running", value |-> ""]

\* Unless the session is interrupted, every call of the batch that is still
\* outstanding can complete whatever the others did, a settled batch is handed
\* on, and the batch turn that reaches the model holds the error text for each
\* call that raised and its own text for each other.
C2_BatchState ==
    /\ (pc = "dispatching" /\ ~must_cancel /\ Len(current_tool_calls) = Len(tool_calls)) =>
          \A i \in 1..Len(tool_calls) :
             tool_results[i] = Pending =>
                ENABLED ToolSettles(i, RemoteOk(<<TextItem(tool_calls[i].name), ImageItem,
                                                  TextItem(tool_calls[i].input)>>))
    /\ (pc = "dispatching" /\ ~must_cancel /\ GatherDone(tool_results)) =>
          ENABLED GatherReturns
    /\ CallAfterBatch =>
          \A k \in 1..Len(tool_calls) :
             LET e == Last(conversation_history).results[k]
             IN  IF e.is_error
                 THEN e.content \in {"Error: " \o x : x \in RemoteErrors}
                 ELSE e.content =
                         EntryContent(RemoteOk(<<TextItem(tool_calls[k].name), ImageItem,
                                                 TextItem(tool_calls[k].input)>>))

\* C2: a call whose remote invocation raises yields an entry tagged is_error
\* with the error message and aborts neither the batch nor the loop: every
\* sibling still settles with its own non-error entry and chat() goes on to the
\* next model call.
C2_ErrorIsLocal == [][C2_SettleStep]_vars /\ []C2_BatchState

\* C2 witness: a batch of two reached the model with one error entry and one
\* successful sibling.
C2_Witness_ErrorAndSibling ==
    /\ CallAfterBatch
    /\ Len(tool_calls) = 2
    /\ Last(conversation_history).results[1].is_error
    /\ ~Last(conversation_history).results[2].is_error
    /\ Last(conversation_history).results[2].content # ""

\* The most recent k turns of a transcript.
Suffix(h, k) == SubSeq(h, Len(h) - k + 1, Len(h))

\* The pruning step of chat(), and _prune_history on any reachable transcript.
C3_PruneStep ==
    (pc = "idle" /\ pc' = "awaiting_model" /\ max_history > 0) =>
        LET before == Append(conversation_history, UserTurn(user_message'))
        IN  conversation_history' = Suffix(before, Min(max_history, Len(before)))

C3_PruneOfAny ==
    \A m \in 1..MaxHistoryArg :
       _prune_history(conversation_history, m)
          = Suffix(conversation_history, Min(m, Len(conversation_history)))

\* C3: with max_history > 0 pruning leaves exactly min(max_history, length)
\* turns, the most recent ones in their original order.
C3_PruneKeepsNewest == [][C3_PruneStep]_vars /\ []C3_PruneOfAny

\* C3 witness: the second chat() pruned a longer transcript to max_history = 2
\* turns, the first of which is the previous answer.
C3_Witness_Pruned ==
    /\ pc = "awaiting_model" /\ iteration = 0
    /\ max_history = 2
    /\ Len(conversation_history) = 2
    /\ conversation_history[1].role = "assistant"
    /\ conversation_history[2] = UserTurn(user_message)

\* Every tool-request turn of transcript h is followed at once by a batch turn
\* with an entry for each id it issued.
RequestsAnswered(h) ==
    \A i \in 1..Len(h) :
       (h[i].role = "assistant" /\ HasToolUse(h[i].blocks)) =>
          /\ i < Len(h)
          /\ h[i + 1].kind = "results"
          /\ \A b \in 1..Len(h[i].blocks) :
                h[i].blocks[b].type = "tool_use" =>
                   \E k \in 1..Len(h[i + 1].results) :
                      h[i + 1].results[k].tool_use_id = h[i].blocks[b].id

\* C4: in every transcript handed to the model, each assistant tool-request
\* turn is immediately followed by a batch turn answering every id it issued.
C4_RequestsAnsweredInTranscript ==
    pc = "awaiting_model" => RequestsAnswered(request.messages)

\* C4 witness: a transcript pruned to max_history = 3 that begins with a
\* tool-request turn kept from a failed earlier turn.
C4_Witness_KeptRequest ==
    /\ pc = "awaiting_model" /\ iteration = 0
    /\ max_history = 3
    /\ Len(request.messages) = 3
    /\ request.messages[1].kind = "blocks"
    /\ request.messages[2].kind = "results"

\* C5 (as claimed): with max_history > 0 no transcript sent to the model holds
\* more than max_history turns.
C5_Claim_TranscriptWithinMax ==
    (pc = "awaiting_model" /\ max_history > 0) => Len(request.messages) <= max_history

\* C6: a model call is made only when no call of the current batch is
\* outstanding, and the call after a batch carries the complete batch turn.
C6_JoinAllBarrier ==
    pc = "awaiting_model" =>
        /\ \A i \in 1..Len(tool_results) : tool_results[i] # Pending
        /\ request.messages = conversation_history
        /\ iteration > 0 =>
              /\ Len(tool_results) = Len(tool_calls)
              /\ Last(request.messages) = ToolResultsTurn(tool_results)
              /\ \A i \in 1..Len(tool_calls) :
                    tool_results[i].type = "tool_result"

\* C6 witness: the model is called after a batch of two has settled.
C6_Witness_AfterBatch ==
    /\ CallAfterBatch
    /\ Len(tool_calls) = 2
    /\ Len(Last(request.messages).results) = 2

\* The texts of the blocks that are text segments, joined from the right.
RECURSIVE TextOfSegments(_, _)
TextOfSegments(content, n) ==
    IF n = 0 THEN ""
    ELSE TextOfSegments(content, n - 1)
         \o (IF content[n].type = "text" THEN content[n].text ELSE "")

ModelAnswered == pc = "awaiting_model" /\ conversation_history' # conversation_history
ReachesDone == ModelAnswered /\ pc' = "idle"

C7_Claim_Step ==
    ModelAnswered =>
        /\ ReachesDone <=> ~HasToolUse(response'.content)
        /\ ReachesDone =>
              Last(conversation_history') =
                 AssistantTextTurn(TextOfSegments(response'.content, Len(response'.content)))

\* C7 (as claimed): chat() reaches DONE exactly when the response carries no
\* tool-call request; the answer is the concatenated text of that response and
\* the last turn of the transcript.
C7_Claim_DoneIffNoToolBlock == [][C7_Claim_Step]_vars

C7_Step ==
    ModelAnswered =>
        /\ ReachesDone <=> response'.stop_reason # "tool_use"
        /\ ~ReachesDone => pc' = "dispatching"
        /\ ReachesDone =>
              /\ conversation_history' =
                    Append(conversation_history,
                           AssistantTextTurn(TextOfSegments(response'.content,
                                                            Len(response'.content))))
              /\ result'.kind = "returned" =>
                    result'.value = Last(conversation_history').text

\* C7 (amended): chat() reaches DONE exactly when the response's stop_reason
\* is not "tool_use"; the final answer is the concatenation, in order, of the
\* text segments of that response, it is appended as the last assistant turn,
\* and it is the value chat() returns.
C7_DoneIffStopReason == [][C7_Step]_vars

\* C7 witness: chat() returned the text of a response cut off by max_tokens
\* that carried a tool_use block.
C7_Witness_TruncatedAnswer ==
    /\ pc = "idle"
    /\ result = [kind |-> "returned", value |-> "ba"]
    /\ response.stop_reason = "max_tokens"
    /\ HasToolUse(response.content)
    /\ conversation_history # <<>>
    /\ Last(conversation_history) = AssistantTextTurn("ba")

\* The model call of chat() raises e.
ModelCallFailed(e) == pc = "awaiting_model" /\ result' = [kind |-> "raised", value |-> e]

C8_Step ==
    ModelCallFailed("api_error") =>
        LET h == conversation_history
        IN  /\ conversation_history' = h
            /\ pc' = "idle"
            /\ request' = NoRequest
            /\ chats' = chats
            /\ model_calls' = model_calls
            /\ tool_calls_made' = tool_calls_made
            /\ Len(h) > 2 * iteration
            /\ h[Len(h) - 2 * iteration] = UserTurn(user_message)
            /\ iteration > 0 =>
                  /\ Last(h) = ToolResultsTurn(tool_results)
                  /\ h[Len(h) - 1] = AssistantBlocksTurn(response.content)

\* C8: a model call that raises ends chat() at once: the transcript is left as
\* it was, with the user message of the turn and every request and batch turn
\* appended so far, and no further model or tool call is made.
C8_FailureLeavesTranscript == [][C8_Step]_vars

\* C8 witness: the model call after a tool batch raised and the transcript still
\* ends with the request turn and its batch turn.
C8_Witness_FailedAfterBatch ==
    /\ pc = "idle"
    /\ result = [kind |-> "raised", value |-> "api_error"]
    /\ Len(conversation_history) >= 3
    /\ Last(conversation_history).kind = "results"
    /\ conversation_history[Len(conversation_history) - 2] = UserTurn(user_message)

\* C9 (as claimed): outside an active connect() scope the session reference is
\* absent.
C9_Claim_SessionOnlyInScope == ActiveScopes = {} => session = <<>>

C10_Claim_Step ==
    (ClientGetTools /\ ActiveScopes = {}) =>
        /\ last_op'.raised
        /\ last_op'.catalog = <<>>

\* C10 (as claimed): reading the catalog outside an active connect() scope
\* fails with the not-connected error and returns no catalog.
C10_Claim_CatalogNeedsScope == [][C10_Claim_Step]_vars

\* connect() has just failed for want of the server's interpreter.
PrerequisiteMissing == last_op = OpRaised("connect", "FileNotFoundError")

C11_Step ==
    (PrerequisiteMissing' /\ connects' = connects + 1) =>
        /\ session = <<>> /\ session' = <<>>
        /\ open_sessions' = open_sessions
        /\ _tools' = _tools
        /\ scope' = Append(scope, "released")

C11_State ==
    PrerequisiteMissing =>
        /\ scope = <<"released">>
        /\ \A raised \in BOOLEAN : ~ENABLED ConnectResumes(1, raised, FHLCatalog)
        /\ session = <<>> /\ open_sessions = {} /\ _tools = <<>>
        /\ chats = 0 /\ model_calls = 0 /\ tool_calls_made = 0
        /\ pc = "idle" /\ conversation_history = <<>> /\ conversations = <<>>
        /\ \A m \in {UserMessages[1]} : ~ENABLED ChatStart(m)

\* C11: when the tool server's interpreter is missing, connect() fails before
\* the scope is entered: no session is set up, the session reference stays
\* absent, and the interactive session never attempts a chat turn, a model
\* call or a tool call.
C11_PrerequisiteMissingFailsEarly == [][C11_Step]_vars /\ []C11_State

\* C11 witness: the one connect() of the session failed on the missing
\* interpreter and the scope was never entered.
C11_Witness_NoInterpreter ==
    /\ PrerequisiteMissing
    /\ connects = 1
    /\ scope = <<"released">>

\* C12 (as claimed): with logging enabled the logger holds exactly one record
\* per turn processed, in turn order.
C12_Claim_OneRecordPerTurn ==
    (enable_logging /\ pc = "idle") =>
        /\ Len(conversations) = chats
        /\ \A i \in 1..Len(conversations) :
              conversations[i].user_message = UserMessages[i]

\* The i-th record of the log as a reader of self.conversations (and of the
\* structured log file, rewritten from it at every log_message) sees it.
RecordAt(i) ==
    [conversations[i] EXCEPT
        !.timing = IF @.shared THEN current_timing ELSE @.own]

C13_Claim_Step ==
    \A i \in 1..Len(conversations) :
       /\ i <= Len(conversations')
       /\ RecordAt(i)' = RecordAt(i)

\* C13 (as claimed): once appended, no field of a record ever changes.
C13_Claim_AppendOnly == [][C13_Claim_Step]_vars

\* The tool-call requests of the last k tool-use iterations recorded in
\* transcript h, as the snapshots execute_tool takes of them.
RECURSIVE RequestsOfTurn(_, _)
RequestsOfTurn(h, k) ==
    IF k = 0 THEN <<>>
    ELSE LET reqs == RequestsBeforeLast(h)
         IN  RequestsOfTurn(SubSeq(h, 1, Len(h) - 2), k - 1)
             \o [j \in 1..Len(reqs) |-> ToolCallInfo(reqs[j])]

\* chat() returns its answer in this step.
ChatReturns == pc = "awaiting_model" /\ result'.kind = "returned"

C14_Claim_Step ==
    (ChatReturns /\ enable_logging) =>
        LET rec == Last(conversations')
            reqs == RequestsOfTurn(conversation_history, iteration)
        IN  /\ Len(conversations') = Len(conversations) + 1
            /\ rec.tool_calls = reqs
            /\ Len(rec.tool_results) = Len(reqs)
            /\ \A j \in 1..Len(reqs) :
                  Cardinality({k \in 1..Len(rec.tool_results) :
                                  rec.tool_results[k].tool_use_id = reqs[j].id}) = 1

\* C14 (as claimed): the record of a completed turn lists exactly the tool
\* calls the model requested over all iterations of that turn, with one
\* outcome each, and lists none when the model requested none.
C14_Claim_RecordListsTurnCalls == [][C14_Claim_Step]_vars

\* The model has given its final answer in this step: the answer is appended
\* to the transcript.
FinalAnswerAppended ==
    /\ pc = "awaiting_model"
    /\ response'.stop_reason # "tool_use"
    /\ conversation_history' =
          Append(conversation_history, AssistantTextTurn(FinalText(response'.content)))

C15_Claim_Step ==
    FinalAnswerAppended =>
        /\ result' = [kind |-> "returned", value |-> FinalText(response'.content)]
        /\ \A i \in (Len(conversations) + 1)..Len(conversations') :
              conversations'[i].error = None
        /\ scope' = scope

\* C15 (as claimed): a failed write of the log does not fail the turn: chat()
\* still returns the final answer and no error is raised or recorded.
C15_Claim_LogFailureNotFatal == [][C15_Claim_Step]_vars

\* A step of the "clear" command: the only step that changes the transcript
\* while the session stays at the prompt.
ClearStep ==
    /\ pc = "idle" /\ pc' = "idle"
    /\ ActiveScopes # {} /\ ActiveScopes' # {}
    /\ conversation_history' # conversation_history

C16_Step ==
    /\ ClearStep => conversation_history' = <<>>
    /\ (pc = "idle" /\ pc' = "awaiting_model" /\ conversation_history = <<>>) =>
          /\ conversation_history' = <<UserTurn(user_message')>>
          /\ request'.messages = <<UserTurn(user_message')>>

\* C16: clear_history() can be called whatever the transcript holds and
\* empties it; the turn appended next is then the only turn of the transcript.
C16_ClearThenAppend ==
    /\ [][C16_Step]_vars
    /\ []((ActiveScopes # {} /\ pc = "idle") => ENABLED ClearHistory)

\* C16 witness: with unbounded retention the second chat() sends a transcript
\* of its user message alone, the turns of the first having been cleared.
C16_Witness_ClearedBeforeSecondChat ==
    /\ max_history = 0
    /\ chats = 2
    /\ pc = "awaiting_model" /\ iteration = 0
    /\ request.messages = <<UserTurn(UserMessages[2])>>

IsPrefix(s, t) == Len(s) <= Len(t) /\ SubSeq(t, 1, Len(s)) = s

C17_Step ==
    (max_history = 0 /\ ~ClearStep) =>
        IsPrefix(conversation_history, conversation_history')

\* C17: with max_history = 0 no step other than clear_history() removes a
\* turn: the transcript after the step extends the transcript before it.
C17_UnboundedRetention == [][C17_Step]_vars

\* C17 witness: with max_history = 0 the second chat() sends a transcript that
\* still begins with the first user message and holds more turns than any
\* positive max_history of the model would keep.
C17_Witness_LongTranscript ==
    /\ max_history = 0
    /\ chats = 2
    /\ pc = "awaiting_model" /\ iteration = 0
    /\ Len(request.messages) > MaxHistoryArg + 1
    /\ request.messages[1] = UserTurn(UserMessages[1])

\* The number of tool-request turns that follow the last user message of
\* transcript h.
RequestTurnsOfTurn(h) ==
    LET asked == {i \in 1..Len(h) : h[i].role = "user" /\ h[i].kind = "text"}
        start == CHOOSE i \in asked : \A j \in asked : j <= i
    IN  Cardinality({i \in (start + 1)..Len(h) : h[i].kind = "blocks"})

C18_Step ==
    /\ (ModelAnswered /\ response'.stop_reason = "tool_use") =>
          /\ pc' = "dispatching"
          /\ iteration' = iteration + 1
    /\ (pc = "awaiting_model" /\ pc' = "idle") =>
          iteration = RequestTurnsOfTurn(conversation_history)

\* Whatever the number of iterations made, chat() takes up a further tool
\* request of the model.
C18_NoCap ==
    (pc = "awaiting_model" /\ model_calls < MaxModelCalls
                           /\ tool_calls_made < MaxToolCalls) =>
        \A r \in {x \in Responses : WantsTools(x) /\ Len(ExtractToolCalls(x.content)) = 1} :
           ENABLED ModelRequestsTools(r)

\* C18: when every model call and every tool call settles and the model stops
\* requesting tools after finitely many responses, chat() ends (DONE or
\* FAILED), having made one tool-use iteration per tool-requesting response;
\* no count of iterations stops the loop, which goes on for as long as the
\* responses request tools.
C18_TerminatesWithoutCap ==
    /\ [][C18_Step]_vars
    /\ []C18_NoCap
    /\ []<>(pc = "idle")

\* C18 witness: chat() returned after two tool-use iterations.
C18_Witness_TwoIterations ==
    /\ pc = "idle"
    /\ result.kind = "returned"
    /\ Len(conversation_history) >= 6
    /\ LET h == conversation_history
           n == Len(conversation_history)
       IN  /\ h[n - 5] = UserTurn(user_message)
           /\ h[n - 4].kind = "blocks" /\ h[n - 3].kind = "results"
           /\ h[n - 2].kind = "blocks" /\ h[n - 1].kind = "results"
           /\ h[n] = AssistantTextTurn(result.value)

\* C19: whatever the order in which the calls of a batch complete, the i-th
\* entry of every batch turn of the transcript carries the id of the i-th
\* tool-call request of the response it answers.
C19_BatchInRequestOrder ==
    LET h == conversation_history
    IN  /\ \A i \in 2..Len(h) :
              (h[i].kind = "results" /\ h[i - 1].kind = "blocks") =>
                 LET reqs == ExtractToolCalls(h[i - 1].blocks)
                 IN  /\ Len(h[i].results) = Len(reqs)
                     /\ \A j \in 1..Len(reqs) : h[i].results[j].tool_use_id = reqs[j].id
        /\ CallAfterBatch =>
              /\ Last(h).kind = "results" /\ h[Len(h) - 1].kind = "blocks"
              /\ h[Len(h) - 1].blocks = response.content

\* C19 witness: in a batch of two the second call completed first and the
\* first raised; the batch turn sent to the model has them in request order.
C19_Witness_LateErrorFirst ==
    /\ CallAfterBatch
    /\ Len(tool_calls) = 2
    /\ current_tool_results[1].tool_use_id = ToolIds[2]
    /\ current_tool_results[2].is_error
    /\ Last(request.messages).results[1].tool_use_id = ToolIds[1]
    /\ Last(request.messages).results[1].is_error
    /\ Last(request.messages).results[2].tool_use_id = ToolIds[2]

\* Transcript h holds a batch turn without the request turn it answers.
Stranded(h) ==
    \E i \in 1..Len(h) :
       h[i].kind = "results" /\ (i = 1 \/ h[i - 1].kind # "blocks")

C20_Step ==
    (pc = "idle" /\ pc' = "awaiting_model" /\ max_history > 0) =>
        LET before == Append(conversation_history, UserTurn(user_message'))
            cut == Len(before) - max_history
        IN  cut > 0 =>
               /\ request'.messages[1] = before[cut + 1]
               /\ (before[cut + 1].kind = "results") => Stranded(request'.messages)

\* C20: with max_history > 0 pruning cuts the oldest turns wherever the cut
\* falls: when it falls between a tool-request turn and its batch turn, the
\* transcript sent to the model begins with the batch turn, its request turn
\* pruned away.
C20_PruningStrandsBatch == [][C20_Step]_vars

\* C20 witness: a transcript sent to the model under max_history > 0 whose
\* first turn is a batch turn.
C20_Witness_StrandedBatch ==
    /\ pc = "awaiting_model"
    /\ max_history > 0
    /\ request.messages[1].kind = "results"
    /\ Stranded(request.messages)

\* chat() is over in this step, by returning or by raising.
ChatEnds == pc # "idle" /\ pc' = "idle"

C21_Claim_Step ==
    (ChatEnds /\ enable_logging) =>
        \A i \in (Len(conversations) + 1)..Len(conversations') :
           LET rec == conversations'[i]
           IN  IF result'.kind = "raised"
               THEN rec.error # None /\ rec.assistant_response = ""
               ELSE rec.error = None /\ rec.assistant_response = result'.value

\* C21 (as claimed): every record of a failed turn has its error set and an
\* empty assistant_response, and every record of a completed turn has no error
\* and the answer chat() returned.
C21_Claim_ErrorIffFailed == [][C21_Claim_Step]_vars

\* The direct calls of the client and the steps of chat() and clear_history.
C22_Operations == {"call_tool", "list_resources", "read_resource", "get_tools_for_claude"}

C22_Step ==
    /\ (_tools' # _tools) =>
          /\ ActiveScopes = {}
          /\ \E k \in 1..Len(scope) : scope[k] = "list_tools" /\ scope'[k] = "active"
          /\ \E c \in Catalogs : _tools' = c /\ last_op' = OpReturned("connect", "", c)
    /\ (ActiveScopes # {} /\ ActiveScopes' # {}) => _tools' = _tools
    /\ (last_op' # last_op /\ last_op'.op \in C22_Operations) => _tools' = _tools
    /\ (in_flight' # in_flight \/ conversation_history' # conversation_history
          \/ pc' # pc) => _tools' = _tools

C22_State ==
    pc = "awaiting_model" =>
        /\ ActiveScopes # {}
        /\ _tools \in Catalogs
        /\ request.tools = _tools

\* C22: the cached catalog is set once per connection, when connect() enters
\* the scope, to the catalog it fetched, and no step of chat(), call_tool,
\* get_tools_for_claude, list_resources, read_resource or clear_history changes
\* it while the scope is active: every model call of the connection is given
\* the catalog that connect() fetched.
C22_CatalogFixedPerConnection == [][C22_Step]_vars /\ []C22_State

\* C22 witness: a model call of the second chat() of the connection, made
\* after read_resource has returned and while list_resources awaits the
\* server, is given the catalog connect() fetched.
C22_Witness_ModelCallAfterDirectCalls ==
    /\ pc = "awaiting_model"
    /\ chats > 1
    /\ last_op.op = "read_resource" /\ ~last_op.raised
    /\ \E c \in in_flight : c.op = "list_resources"
    /\ request.tools = _tools
    /\ _tools \in Catalogs

\* C23 (as claimed): with max_history >= 1 every transcript sent to the model
\* begins with a user-role turn.
C23_Claim_FirstTurnIsUser ==
    (pc = "awaiting_model" /\ max_history >= 1) => request.messages[1].role = "user"

\* Consecutive turns of transcript h have different roles.
Alternates(h) == \A i \in 1..(Len(h) - 1) : h[i].role # h[i + 1].role

\* C24 (as claimed): in every transcript sent to the model consecutive turns
\* strictly alternate between user-role and assistant-role turns.
C24_Claim_StrictAlternation == pc = "awaiting_model" => Alternates(request.messages)

\* A user message is appended right after a user-role turn only when the
\* chat() before it was ended by its model call raising.
C24_Step ==
    (pc = "idle" /\ pc' = "awaiting_model" /\ conversation_history # <<>>
                 /\ Last(conversation_history).role = "user") =>
        result = [kind |-> "raised", value |-> "api_error"]

C24_State ==
    pc = "awaiting_model" =>
        LET h == request.messages
        IN  \A i \in 1..(Len(h) - 1) :
               h[i].role = h[i + 1].role =>
                  /\ h[i].role = "user"
                  /\ h[i + 1].kind = "text"

\* C24 (amended): in every transcript sent to the model an assistant-role turn
\* is never followed by an assistant-role turn, and a user-role turn is
\* followed by a user-role turn only where a user message was submitted right
\* after a turn whose model call failed, whose last turn (its user message or
\* tool-result batch) stays in the transcript; everywhere else consecutive
\* turns alternate.
C24_AlternationUpToFailedTurns == [][C24_Step]_vars /\ []C24_State

\* C24 witness: a user message sent right after the tool-result batch of a
\* turn whose second model call failed.
C24_Witness_ResubmittedAfterBatch ==
    /\ pc = "awaiting_model" /\ iteration = 0
    /\ Len(request.messages) >= 2
    /\ request.messages[Len(request.messages) - 1].kind = "results"
    /\ Last(request.messages) = UserTurn(user_message)

C25_Step ==
    /\ pc # "idle" =>
          /\ IsPrefix(conversation_history, conversation_history')
          /\ Len(conversation_history') <= Len(conversation_history) + 1
    /\ ChatReturns =>
          LET h == conversation_history'
              n == Len(conversation_history')
              k == iteration
              kept == Len(conversation_history') - (2 * iteration + 1)
          IN  /\ kept >= 1
              /\ h[kept] = UserTurn(user_message)
              /\ \A j \in 1..k :
                    /\ h[kept + 2 * j - 1].kind = "blocks"
                    /\ h[kept + 2 * j].kind = "results"
              /\ h[n] = AssistantTextTurn(result'.value)
              /\ max_history > 0 =>
                    /\ kept <= max_history
                    /\ n <= max_history + 2 * k + 1

\* C25: after its pruning step chat() only appends: a chat() that returns
\* after k tool-use iterations has appended k pairs of request turn and batch
\* turn and the final answer to at most max_history pruned turns, so the
\* transcript it leaves holds at most max_history + 2k + 1 turns and can hold
\* more than max_history.
C25_AppendsAfterPruning == [][C25_Step]_vars

\* C25 witness: with max_history = 1 a chat() with one tool-use iteration
\* returned leaving max_history + 3 turns.
C25_Witness_ExceedsMaxHistory ==
    /\ pc = "idle"
    /\ result.kind = "returned"
    /\ max_history = 1
    /\ Len(conversation_history) = max_history + 3
    /\ conversation_history[2].kind = "blocks"

====
